---- MODULE Spec2Model ----
(***************************************************************************)
(* Request lifecycle of the incident-prediction form (FrontEnd App         *)
(* component, in its list-rendering and chart-rendering variants).         *)
(*                                                                         *)
(* The component holds five React state cells (date, assignmentGroup,      *)
(* response, loading, error).  The user edits the two fields and submits   *)
(* the form; handleSubmit posts the fields to the Prediction Service and   *)
(* its continuation stores the body or a generic error message.            *)
(*                                                                         *)
(* JavaScript values are encoded as follows.  A nullable cell holds        *)
(* either null (the empty tuple) or Some(v) (the one-element tuple <<v>>); *)
(* the same encoding is used for a property that may be undefined.  A JSON *)
(* object is a record of the properties the component reads; an object     *)
(* used as a mapping (predictions) is the sequence of its entries in       *)
(* insertion order, which is the order Object.entries enumerates.          *)
(***************************************************************************)
EXTENDS Integers, Sequences, FiniteSets, TLC

VARIABLES
    variant,          \* which App source is running: "list" or "chart"
    date,             \* useState("")    - value of the date input
    assignmentGroup,  \* useState("")    - value of the assignment-group input
    response,         \* useState(null)  - null or Some(body of a 2xx reply)
    loading,          \* useState(false)
    error,            \* useState(null)  - null or Some(message)
    mounted,          \* the component tree is mounted (no render has thrown)
    requests,         \* requests posted and not yet answered by the service
    replies,          \* outcomes on their way back to the awaiting handler
    issued,           \* number of axios.post calls made so far
    submits           \* number of submit events that ran handleSubmit

vars == <<variant, date, assignmentGroup, response, loading, error, mounted,
          requests, replies, issued, submits>>

----------------------------------------------------------------------------
(* Bounds and input domains *)

MaxSubmits == 3

Variants == {"list", "chart"}

\* values an <input type="date"> can hold: empty or a calendar date
Dates == {"", "2024-01-01", "2024-01-02"}

\* values the assignment-group text input can hold
Groups == {"", "NETWORK", "DB"}

----------------------------------------------------------------------------
(* Encoding of JavaScript null / undefined *)

null == <<>>

undefined == <<>>

Some(v) == <<v>>

----------------------------------------------------------------------------
(* The Prediction Service and the HTTP client *)

Entry(k, v) == [key |-> k, value |-> v]

\* predictions objects the service may return, as entry lists in insertion
\* order: the documented four labels, an empty mapping, and a mapping with
\* an extra label in a different order
PredictionMaps ==
    { << Entry("P1", 10), Entry("P2", 20), Entry("P3", 5), Entry("P4", 1) >>,
      << >>,
      << Entry("P2", 7), Entry("P1", 3), Entry("P5", 2) >> }

\* a request as posted: the JSON body of axios.post plus its sequence number
Request(n, d, g) == [id |-> n, date |-> d, assignment_group |-> g]

\* 2xx bodies of the PredictionResult shape for request r
WellFormedBodies(r) ==
    { [date |-> r.date, assignment_group |-> r.assignment_group,
       predictions |-> Some(p)] : p \in PredictionMaps }

\* 2xx bodies that lack the shape: a JSON object without predictions, and
\* an empty (null) body
MalformedData(r) ==
    { Some([date |-> r.date, assignment_group |-> r.assignment_group,
            predictions |-> undefined]),
      null }

\* everything that can come back for request r.  status 0 is a request that
\* got no HTTP response at all (network error).
Outcomes(r) ==
    { [id |-> r.id, config |-> r, status |-> 200, statusText |-> "OK",
       data |-> Some(b)] : b \in WellFormedBodies(r) }
    \cup
    { [id |-> r.id, config |-> r, status |-> 200, statusText |-> "OK",
       data |-> d] : d \in MalformedData(r) }
    \cup
    { [id |-> r.id, config |-> r, status |-> 500,
       statusText |-> "Internal Server Error", data |-> null],
      [id |-> r.id, config |-> r, status |-> 0,
       statusText |-> "Network Error", data |-> null] }

\* the body has the PredictionResult shape
IsPredictionResult(d) == d # null /\ d[1].predictions # undefined

\* axios resolves the awaited promise for a 2xx status and rejects otherwise
Resolves(m) == m.status >= 200 /\ m.status < 300

\* the error object the awaited promise rejects with
ThrownError(m) ==
    [message |-> IF m.status = 0 THEN m.statusText
                 ELSE "Request failed: " \o m.statusText]

----------------------------------------------------------------------------
(* The component *)

\* the fixed string of the catch block
GenericMessage(v) ==
    IF v = "list" THEN "Failed to fetch data. Please try again."
    ELSE "Something went wrong. Please try again."

\* a catch block that shows the text of the thrown error
CatchRawMessage(v, err) == err.message

\* catch (err) { setError(<fixed string>) }
CatchMessage(v, err) == GenericMessage(v)

\* setResponse(res.body): a property the client's response object lacks
ResponseOfMissingProperty(m) == undefined

\* setResponse(res.data)
ResponseOf(m) == m.data

\* a button without the disabled attribute
SubmitNeverDisabled == FALSE

\* the submit button's disabled attribute
SubmitDisabled == loading

\* both inputs carry `required`: the browser fires no submit event while
\* one of them is empty
FormValid == date # "" /\ assignmentGroup # ""

\* the render dereferences response.predictions whenever response is truthy:
\* Object.entries(response.predictions) in the list variant,
\* response.predictions.P1 in the chart variant.  Both throw a TypeError
\* when predictions is undefined.
RenderThrows(resp) == resp # null /\ resp[1].predictions = undefined

Init ==
    /\ variant \in Variants
    /\ date = ""
    /\ assignmentGroup = ""
    /\ response = null
    /\ loading = FALSE
    /\ error = null
    /\ mounted = TRUE
    /\ requests = {}
    /\ replies = {}
    /\ issued = 0
    /\ submits = 0

\* a date setter whose edit reaches the request already posted
SetDateRewritesRequest(v) ==
    /\ mounted
    /\ date' = v
    /\ requests' = {[r EXCEPT !.date = v] : r \in requests}
    /\ UNCHANGED <<variant, assignmentGroup, response, loading, error,
                   mounted, replies, issued, submits>>

\* onChange={(e) => setDate(e.target.value)}
SetDate(v) ==
    /\ mounted
    /\ date' = v
    /\ UNCHANGED <<variant, assignmentGroup, response, loading, error,
                   mounted, requests, replies, issued, submits>>

\* a group setter that also dismisses the error banner
SetAssignmentGroupClearsError(v) ==
    /\ mounted
    /\ assignmentGroup' = v
    /\ error' = null
    /\ UNCHANGED <<variant, date, response, loading,
                   mounted, requests, replies, issued, submits>>

\* onChange={(e) => setAssignmentGroup(e.target.value)}
SetAssignmentGroup(v) ==
    /\ mounted
    /\ assignmentGroup' = v
    /\ UNCHANGED <<variant, date, response, loading, error,
                   mounted, requests, replies, issued, submits>>

\* a handleSubmit that leaves the previous result on screen
SubmitKeepsResponse ==
    /\ mounted
    /\ ~SubmitDisabled
    /\ FormValid
    /\ issued < MaxSubmits
    /\ loading' = TRUE
    /\ error' = null
    /\ requests' = requests \cup {Request(issued + 1, date, assignmentGroup)}
    /\ issued' = issued + 1
    /\ submits' = submits + 1
    /\ UNCHANGED <<variant, date, assignmentGroup, response, mounted, replies>>

\* handleSubmit up to the await: the three setters, then axios.post with the
\* field values of the render the handler closes over
Submit ==
    /\ mounted
    /\ ~SubmitDisabled
    /\ FormValid
    /\ issued < MaxSubmits
    /\ loading' = TRUE
    /\ error' = null
    /\ response' = null
    /\ requests' = requests \cup {Request(issued + 1, date, assignmentGroup)}
    /\ issued' = issued + 1
    /\ submits' = submits + 1
    /\ UNCHANGED <<variant, date, assignmentGroup, mounted, replies>>

\* the service (or the network) produces the outcome of a posted request
ServiceRespond ==
    \E r \in requests :
        \E m \in Outcomes(r) :
            /\ requests' = requests \ {r}
            /\ replies' = replies \cup {m}
            /\ UNCHANGED <<variant, date, assignmentGroup, response, loading,
                           error, mounted, issued, submits>>

\* a resolved branch that never resets loading
HandleResolvedNoFinally(m) ==
    /\ mounted
    /\ Resolves(m)
    /\ response' = ResponseOf(m)
    /\ mounted' = ~RenderThrows(response')
    /\ replies' = replies \ {m}
    /\ UNCHANGED <<variant, date, assignmentGroup, loading, error, requests,
                   issued, submits>>

\* handleSubmit after the await, resolved branch:
\* setResponse(res.data); finally setLoading(false); then the re-render
HandleResolved(m) ==
    /\ mounted
    /\ Resolves(m)
    /\ response' = ResponseOf(m)
    /\ loading' = FALSE
    /\ mounted' = ~RenderThrows(response')
    /\ replies' = replies \ {m}
    /\ UNCHANGED <<variant, date, assignmentGroup, error, requests, issued,
                   submits>>

\* a rejected branch that posts the request again by itself
HandleRejectedRetry(m) ==
    /\ mounted
    /\ ~Resolves(m)
    /\ issued < MaxSubmits
    /\ requests' = requests \cup
                      {Request(issued + 1, m.config.date,
                               m.config.assignment_group)}
    /\ issued' = issued + 1
    /\ replies' = replies \ {m}
    /\ UNCHANGED <<variant, date, assignmentGroup, response, loading, error,
                   mounted, submits>>

\* a rejected branch without the finally block
HandleRejectedNoFinally(m) ==
    /\ mounted
    /\ ~Resolves(m)
    /\ error' = Some(CatchMessage(variant, ThrownError(m)))
    /\ replies' = replies \ {m}
    /\ UNCHANGED <<variant, date, assignmentGroup, response, loading, mounted,
                   requests, issued, submits>>

\* handleSubmit after the await, rejected branch:
\* catch setError(...); finally setLoading(false)
HandleRejected(m) ==
    /\ mounted
    /\ ~Resolves(m)
    /\ error' = Some(CatchMessage(variant, ThrownError(m)))
    /\ loading' = FALSE
    /\ replies' = replies \ {m}
    /\ UNCHANGED <<variant, date, assignmentGroup, response, mounted,
                   requests, issued, submits>>

\* an App with a request timeout that gives up on a pending request
NextWithTimeout ==
    \/ \E v \in Dates : SetDate(v)
    \/ \E v \in Groups : SetAssignmentGroup(v)
    \/ Submit
    \/ ServiceRespond
    \/ \E m \in replies : HandleResolved(m)
    \/ \E m \in replies : HandleRejected(m)
    \/ /\ mounted
       /\ loading
       /\ requests # {}
       /\ error' = Some(GenericMessage(variant))
       /\ loading' = FALSE
       /\ requests' = {}
       /\ UNCHANGED <<variant, date, assignmentGroup, response, mounted,
                      replies, issued, submits>>

Next ==
    \/ \E v \in Dates : SetDate(v)
    \/ \E v \in Groups : SetAssignmentGroup(v)
    \/ Submit
    \/ ServiceRespond
    \/ \E m \in replies : HandleResolved(m)
    \/ \E m \in replies : HandleRejected(m)

Spec == Init /\ [][Next]_vars

\* every posted request eventually gets its outcome, and the event loop
\* eventually runs the continuation of a settled promise
FairSpec ==
    /\ Spec
    /\ WF_vars(ServiceRespond)
    /\ WF_vars(\E m \in replies : HandleResolved(m))
    /\ WF_vars(\E m \in replies : HandleRejected(m))

----------------------------------------------------------------------------
(* Derived views of the state *)

InFlight == Cardinality(requests) + Cardinality(replies)

\* the four request states, read off the state cells of a mounted component
RequestState ==
    IF ~mounted THEN "Crashed"
    ELSE IF loading THEN "Submitting"
    ELSE IF error # null THEN "Failed"
    ELSE IF response # null THEN "Succeeded"
    ELSE "Idle"

RequestStates == {"Idle", "Submitting", "Succeeded", "Failed"}

\* the requests whose outcome has not been handled, as posted
Outstanding == requests \cup {m.config : m \in replies}

----------------------------------------------------------------------------
(* Result presentation: the priority -> count pairs the render shows *)

\* labels: ["P1", "P2", "P3", "P4"] of the chart variant
ChartLabels == <<"P1", "P2", "P3", "P4">>

\* the property read predictions.<k>: the value, or undefined without it
Lookup(p, k) ==
    IF \E i \in 1..Len(p) : p[i].key = k
    THEN Some(p[CHOOSE i \in 1..Len(p) : p[i].key = k].value)
    ELSE undefined

\* Object.entries(response.predictions).map(([key, value]) => <li>...)
SummarizeList(p) ==
    [i \in 1..Len(p) |-> Entry(p[i].key, Some(p[i].value))]

\* <Bar data={{ labels: [...], datasets: [{ data: [predictions.P1, ...] }] }}>
SummarizeChart(p) ==
    [i \in 1..Len(ChartLabels) |->
        Entry(ChartLabels[i], Lookup(p, ChartLabels[i]))]

Summarize(v, p) ==
    IF v = "list" THEN SummarizeList(p) ELSE SummarizeChart(p)

\* what the {response && ...} block shows of the predictions
Summary ==
    IF mounted /\ response # null
    THEN Summarize(variant, response[1].predictions[1])
    ELSE <<>>

TypeOK ==
    /\ variant \in Variants
    /\ date \in Dates
    /\ assignmentGroup \in Groups
    /\ loading \in BOOLEAN
    /\ mounted \in BOOLEAN
    /\ issued \in 0..MaxSubmits
    /\ submits \in 0..MaxSubmits

----------------------------------------------------------------------------
(* Claims *)

\* C1: while loading is true no submit event can run handleSubmit, and in
\* every reachable state at most one request is in flight.
C1_AtMostOneInFlight ==
    /\ loading => ~ENABLED Submit
    /\ InFlight <= 1

\* a request is in flight and the form is otherwise ready for a submit
C1_Witness ==
    /\ loading
    /\ InFlight = 1
    /\ FormValid
    /\ issued < MaxSubmits

\* C2: in every reachable state at most one of "loading is true", "a result
\* is held" and "an error is held" is true.
C2_OneVariant ==
    /\ ~(loading /\ response # null)
    /\ ~(loading /\ error # null)
    /\ ~(response # null /\ error # null)

\* a failure is held after an earlier request had already completed
C2_Witness ==
    /\ error # null
    /\ ~loading
    /\ issued >= 2

\* C3: the step in which a submit is accepted starts outside Submitting and
\* ends in Submitting with result and error cleared, the new request posted
\* and no outcome of it handled or even produced yet.
C3_SubmitEntersSubmitting ==
    [][issued' # issued =>
        /\ RequestState \in {"Idle", "Succeeded", "Failed"}
        /\ RequestState' = "Submitting"
        /\ response' = null
        /\ error' = null
        /\ requests' = {Request(issued', date, assignmentGroup)}
        /\ replies' = {}]_vars

\* Submitting entered by a submit that followed an earlier completed request
C3_Witness ==
    /\ loading
    /\ issued >= 2
    /\ response = null
    /\ error = null
    /\ requests # {}

\* C4: whenever the outcome of the in-flight request is handled and it is a
\* failure - no response, a non-2xx status, or a 2xx body without the
\* PredictionResult shape - the controller ends in Failed with the generic
\* message, holding no result, inside the four request states.
C4_EveryFailureFails ==
    [][\A m \in replies :
          (replies' = replies \ {m}
           /\ (~Resolves(m) \/ ~IsPredictionResult(m.data)))
          => /\ RequestState' = "Failed"
             /\ error' = Some(GenericMessage(variant))
             /\ response' = null]_vars

\* a 2xx body without predictions has been handled
C4_Witness ==
    /\ ~loading
    /\ response # null
    /\ ~IsPredictionResult(response)

\* C5: the held error is always absent or the one fixed non-empty generic
\* string, and handling a non-2xx status and handling a network error both
\* end in the same Failed state with that string.
C5_UniformGenericError ==
    /\ [](/\ GenericMessage(variant) # ""
          /\ error \in {null, Some(GenericMessage(variant))})
    /\ [][\A m \in replies :
            (replies' = replies \ {m} /\ ~Resolves(m))
            => /\ RequestState' = "Failed"
               /\ error' = Some(GenericMessage(variant))
               /\ error' # Some(ThrownError(m).message)
               /\ error' # Some(m.statusText)
               /\ response' = null]_vars

\* Failed is held after a rejected request
C5_Witness ==
    /\ RequestState = "Failed"
    /\ error = Some(GenericMessage(variant))
    /\ InFlight = 0

\* C6: handling a 2xx outcome whose body has the PredictionResult shape
\* takes the controller from Submitting to Succeeded, the held result being
\* exactly that body, with no error and loading false.
C6_SuccessStoresBody ==
    [][\A m \in replies :
          (replies' = replies \ {m} /\ Resolves(m)
           /\ IsPredictionResult(m.data))
          => /\ RequestState = "Submitting"
             /\ RequestState' = "Succeeded"
             /\ response' = m.data
             /\ response'[1].date = m.data[1].date
             /\ response'[1].assignment_group = m.data[1].assignment_group
             /\ response'[1].predictions = m.data[1].predictions
             /\ error' = null
             /\ loading' = FALSE]_vars

\* a well-formed body with a non-empty predictions mapping is held
C6_Witness ==
    /\ RequestState = "Succeeded"
    /\ IsPredictionResult(response)
    /\ response[1].predictions # Some(<<>>)
    /\ InFlight = 0

\* C7: requests are posted only by accepted submits, one each, with the
\* field values of that moment as body; the number of requests posted always
\* equals the number of accepted submits.
C7_OneRequestPerSubmit ==
    /\ [](issued = submits)
    /\ [][(issued' # issued \/ submits' # submits
           \/ requests' \ requests # {})
          => /\ issued' = issued + 1
             /\ submits' = submits + 1
             /\ requests' \ requests =
                    {Request(issued', date, assignmentGroup)}
             /\ InFlight' = InFlight + 1]_vars

\* a failure has been handled and nothing was posted again
C7_Witness ==
    /\ RequestState = "Failed"
    /\ issued = 1
    /\ submits = 1
    /\ InFlight = 0

\* C8: while Submitting both fields can be edited to any value; such an edit
\* leaves the posted request, any outcome on its way and the Submitting
\* state as they are, and the step that handles the outcome stores what the
\* outcome carries for the request as posted and leaves the fields alone.
C8_EditsDoNotReachRequest ==
    /\ [](RequestState = "Submitting" =>
            /\ \A v \in Dates : ENABLED SetDate(v)
            /\ \A v \in Groups : ENABLED SetAssignmentGroup(v))
    /\ [][(loading /\ (date' # date \/ assignmentGroup' # assignmentGroup))
          => /\ requests' = requests
             /\ replies' = replies
             /\ Outstanding' = Outstanding
             /\ loading']_vars
    /\ [][\A m \in replies :
            (replies' = replies \ {m})
            => /\ date' = date
               /\ assignmentGroup' = assignmentGroup
               /\ (Resolves(m) => response' = m.data)
               /\ (Resolves(m) /\ IsPredictionResult(m.data) =>
                      /\ response'[1].date = m.config.date
                      /\ response'[1].assignment_group =
                            m.config.assignment_group)
               /\ (~Resolves(m) =>
                      error' = Some(GenericMessage(variant)))]_vars

\* both fields differ from the body of the request still in flight
C8_Witness ==
    /\ loading
    /\ \E r \in Outstanding :
          /\ r.date # date
          /\ r.assignment_group # assignmentGroup

\* C9: in each of the four request states both setters accept every value,
\* and a step that changes one field changes nothing else.
C9_SettersArePure ==
    /\ [](RequestState \in RequestStates =>
            /\ \A v \in Dates : ENABLED SetDate(v)
            /\ \A v \in Groups : ENABLED SetAssignmentGroup(v))
    /\ [][date' # date =>
            UNCHANGED <<variant, assignmentGroup, response, loading, error,
                        mounted, requests, replies, issued, submits>>]_vars
    /\ [][assignmentGroup' # assignmentGroup =>
            UNCHANGED <<variant, date, response, loading, error,
                        mounted, requests, replies, issued, submits>>]_vars

\* fields edited away from what was submitted while an error is held
C9_Witness ==
    /\ RequestState = "Failed"
    /\ date = ""
    /\ assignmentGroup = ""
    /\ issued >= 1

\* C10: no reachable state is terminal: as long as the submission budget of
\* the model is not used up some event is possible, and whenever no request
\* is in flight and both fields are filled in a submit is accepted.
C10_NoTerminalState ==
    issued < MaxSubmits =>
        /\ ENABLED Next
        /\ (~loading /\ FormValid => ENABLED Submit)

\* a state that looks Succeeded and accepts no event at all
C10_Witness ==
    /\ ~loading
    /\ response # null
    /\ FormValid
    /\ issued < MaxSubmits
    /\ ~ENABLED Next

\* C11: the controller leaves Submitting only in the step that handles the
\* outcome of the in-flight request; every other step taken in Submitting
\* (a field edit, the service producing the outcome) stays in Submitting,
\* posts nothing and writes neither a result nor an error.
C11_LeavesSubmittingOnlyByOutcome ==
    [][RequestState = "Submitting" =>
        /\ requests' \subseteq requests
        /\ issued' = issued
        /\ \/ \E m \in replies : replies' = replies \ {m}
           \/ /\ RequestState' = "Submitting"
              /\ response' = null
              /\ error' = null
              /\ Outstanding' = Outstanding]_vars

\* a request still unanswered after both fields were edited to empty
C11_Witness ==
    /\ RequestState = "Submitting"
    /\ requests # {}
    /\ date = ""
    /\ assignmentGroup = ""

RECURSIVE SumCounts(_)
\* sum of the counts of a predictions mapping
SumCounts(p) ==
    IF p = <<>> THEN 0 ELSE Head(p).value + SumCounts(Tail(p))

RECURSIVE SumShown(_)
\* sum of the values a summary shows (an undefined value adds nothing)
SumShown(s) ==
    IF s = <<>> THEN 0
    ELSE (IF Head(s).value = undefined THEN 0 ELSE Head(s).value[1])
         + SumShown(Tail(s))

\* C12: whenever a well-formed result is held in Succeeded, the summary
\* shown consists of exactly the key/value pairs of its predictions: the
\* same pairs, as many entries as labels, and the same sum of values.
C12_SummaryIsPredictions ==
    RequestState = "Succeeded" =>
        LET p == response[1].predictions[1] IN
        /\ {Summary[i] : i \in 1..Len(Summary)} =
               {Entry(p[i].key, Some(p[i].value)) : i \in 1..Len(p)}
        /\ Len(Summary) = Len(p)
        /\ SumShown(Summary) = SumCounts(p)

\* the chart variant holds a result with a label outside P1..P4
C12_Witness ==
    /\ RequestState = "Succeeded"
    /\ variant = "chart"
    /\ Lookup(response[1].predictions[1], "P5") # undefined
    /\ \A i \in 1..Len(Summary) : Summary[i].key # "P5"

\* C14: in every reachable state loading is true exactly when a request is
\* in flight, that is posted and its outcome not yet handled.
C14_LoadingIffInFlight ==
    loading <=> InFlight > 0

\* the outcome has arrived but is not handled yet: loading is still true
C14_Witness ==
    /\ loading
    /\ requests = {}
    /\ replies # {}

\* C15: an outcome is only ever written by the step that handles the reply
\* to the most recently posted request, the result it writes is that reply's
\* body for that request's date and group, the only other change to result
\* or error is the clearing done by the next submit, and while a result or
\* an error is held no request is in flight.
C15_OutcomeOfLatestRequest ==
    /\ []((response # null \/ error # null) =>
            (InFlight = 0 /\ issued >= 1))
    /\ [][\A m \in replies :
            (replies' = replies \ {m})
            => /\ m.id = issued
               /\ requests = {}
               /\ (response' # null =>
                      /\ response' = m.data
                      /\ response'[1].date = m.config.date
                      /\ response'[1].assignment_group =
                            m.config.assignment_group)]_vars
    /\ [][(response' # response \/ error' # error)
          => \/ (issued' = issued + 1 /\ response' = null /\ error' = null)
             \/ \E m \in replies :
                   replies' = replies \ {m} /\ m.id = issued]_vars

\* the result of the second request is held
C15_Witness ==
    /\ RequestState = "Succeeded"
    /\ issued = 2
    /\ InFlight = 0
    /\ Len(Summary) > 0

\* C16: when every posted request eventually completes, every Submitting
\* state is eventually followed by Succeeded or Failed, the step that ends
\* Submitting ends in one of the two, and loading is never true once the
\* outcome has been handled.
C16_SubmittingEndsInOutcome ==
    /\ [][(loading /\ ~loading') =>
            RequestState' \in {"Succeeded", "Failed"}]_vars
    /\ [](loading => InFlight > 0)
    /\ (RequestState = "Submitting" ~>
            (~loading /\ RequestState \in {"Succeeded", "Failed"}))

\* C16, the part that holds: Submitting always ends with loading false
C16_LoadingEventuallyReset ==
    /\ [](loading => InFlight > 0)
    /\ (loading ~> ~loading)

\* Submitting has ended in Idle: the outcome was a 2xx reply without a body
C16_Witness ==
    /\ RequestState = "Idle"
    /\ issued >= 1
    /\ InFlight = 0

====
